---- MODULE Spec2Model ----
(***************************************************************************)
(* Cold Pressor experiment form (coldpress.py).                            *)
(*                                                                         *)
(* The program keeps two session values, st.session_state.data (a frame of *)
(* rows Deltagare / Kon / Tid) and st.session_state.counter, and mutates    *)
(* them from two button callbacks, add_data and reset_data.  After every    *)
(* event the page script runs again: it lists the frame and, when the      *)
(* frame is not empty, calls perform_ttest on it.                           *)
(*                                                                         *)
(* A row is [Deltagare |-> id, Kon |-> label, Tid |-> seconds].  Seconds    *)
(* are whole numbers (the number_input is an integer input), so float() of *)
(* them is exact and a time is modelled by its integer value.  Quantities  *)
(* that are not integers are kept exactly: a mean as a fraction num/den, a *)
(* standard deviation and a t statistic by the fraction that is their      *)
(* square (with the sign kept apart for t).                                 *)
(***************************************************************************)
EXTENDS Integers, Sequences, FiniteSets, TLC

VARIABLES
    data,       \* st.session_state.data: the sequence of rows
    counter,    \* st.session_state.counter
    msg,        \* what the last event's callback reported:
                \* "added", "error", "reset", or "none" (no callback ran)
    listing,    \* what the page lists: [view, rows]
    result,     \* what perform_ttest returned in the last run
    cleared,    \* history: length of the frame at the last reset, -1 if none
    rejectedAt  \* history: length of the frame at the last rejected add_data
                \* since the last reset, -1 if none

vars == <<data, counter, msg, listing, result, cleared, rejectedAt>>

(* Bound of the model: the longest frame explored. *)
MaxLen == 3

(* ---------------------------- inputs ---------------------------------- *)

(* The two labels the radio offers and perform_ttest partitions by. *)
RadioOptions == {"Man", "Kvinna"}

(* Values of the global gender that add_data is called with: the radio's  *)
(* options, the empty string its validation tests for, and a label that   *)
(* is neither.                                                            *)
Genders == RadioOptions \cup {"", "Other"}

MinTime == 0
MaxTime == 300

(* Values of the global time_sec that add_data is called with: both ends  *)
(* of the accepted range and the first value beyond each end.             *)
Times == {MinTime - 1, MinTime, MaxTime, MaxTime + 1}

(* ---------------------------- the store -------------------------------- *)

FirstCounter == 1

(* pd.DataFrame(columns=[...]).astype({...}): a frame with no rows. *)
EmptyFrame == << >>

(* The validation of add_data: the condition under which it goes on. *)
Valid(g, t) == ~(g = "" \/ t < MinTime \/ t > MaxTime)

(* add_data with the newest row put first instead of last. *)
add_data_prepend(g, t, df, c) ==
    IF ~Valid(g, t)
    THEN [data |-> df, counter |-> c, msg |-> "error"]
    ELSE [data    |-> <<[Deltagare |-> c, Kon |-> g, Tid |-> t]>> \o df,
          counter |-> c + 1,
          msg     |-> "added"]

(* add_data that forgets to advance the counter. *)
add_data_stale_counter(g, t, df, c) ==
    IF ~Valid(g, t)
    THEN [data |-> df, counter |-> c, msg |-> "error"]
    ELSE [data    |-> Append(df, [Deltagare |-> c, Kon |-> g, Tid |-> t]),
          counter |-> c,
          msg     |-> "added"]

(* add_data that advances the counter before it validates. *)
add_data_consume_on_reject(g, t, df, c) ==
    IF ~Valid(g, t)
    THEN [data |-> df, counter |-> c + 1, msg |-> "error"]
    ELSE [data    |-> Append(df, [Deltagare |-> c, Kon |-> g, Tid |-> t]),
          counter |-> c + 1,
          msg     |-> "added"]

(* add_data, on the globals g = gender, t = time_sec and the session's    *)
(* frame df and counter c: the session values and the message after it.   *)
add_data(g, t, df, c) ==
    IF ~Valid(g, t)
    THEN [data |-> df, counter |-> c, msg |-> "error"]
    ELSE [data    |-> Append(df, [Deltagare |-> c, Kon |-> g, Tid |-> t]),
          counter |-> c + 1,
          msg     |-> "added"]

(* reset_data that empties the frame and leaves the counter alone. *)
reset_data_keep_counter(df, c) ==
    [data |-> EmptyFrame, counter |-> c, msg |-> "reset"]

(* reset_data, on the session's frame and counter. *)
reset_data(df, c) ==
    [data |-> EmptyFrame, counter |-> FirstCounter, msg |-> "reset"]

(* ---------------------------- the statistics --------------------------- *)

(* Python's None, as a value comparable with the records below. *)
None == [kind |-> "None"]

(* A floating-point not-a-number. *)
NaN == [kind |-> "nan"]

MinTotal == 2

RECURSIVE SeqSum(_)
(* Sum of a sequence of integers. *)
SeqSum(xs) == IF xs = << >> THEN 0 ELSE Head(xs) + SeqSum(Tail(xs))

(* Sum of the squares of a sequence of integers. *)
SumSq(xs) == SeqSum([i \in DOMAIN xs |-> xs[i] * xs[i]])

(* n times the sum of the squared deviations from the mean,               *)
(* n * SUM (x - S/n)^2 = n * Q - S^2, an integer.                          *)
Dev(xs) == Len(xs) * SumSq(xs) - SeqSum(xs) * SeqSum(xs)

(* pd.to_numeric that also converts the seconds to whole minutes. *)
to_numeric_minutes(x) == x \div 60

(* pd.to_numeric on a value of the column Tid.  The column holds the      *)
(* floats add_data stored, and to_numeric leaves a numeric value as it is. *)
to_numeric(x) == x

(* df["Tid (s)"] = pd.to_numeric(df["Tid (s)"]): the frame after the       *)
(* assignment, which acts on the session's own frame.                      *)
AssignTid(df) == [i \in DOMAIN df |-> [df[i] EXCEPT !.Tid = to_numeric(df[i].Tid)]]

(* df[df["Kon"] == g]["Tid (s)"].values: the times of group g, in order. *)
GroupValues(df, g) ==
    LET rows == SelectSeq(df, LAMBDA r : r.Kon = g)
    IN  [i \in DOMAIN rows |-> rows[i].Tid]

(* ndarray.mean(): the fraction sum / n. *)
mean(xs) == [num |-> SeqSum(xs), den |-> Len(xs)]

(* ndarray.std(): numpy's default, the square root of the mean of the     *)
(* squared deviations (divisor n).  Its square is Dev / n^2.               *)
std(xs) == [sqnum |-> Dev(xs), sqden |-> Len(xs) * Len(xs)]

(* The sign of an integer. *)
Sign(x) == IF x > 0 THEN 1 ELSE IF x < 0 THEN -1 ELSE 0

(* stats.ttest_ind(a, b, equal_var=False), the statistic:                  *)
(*   t = (mean a - mean b) / sqrt(var a / na + var b / nb)                 *)
(* with the sample variances var = Dev / (n (n - 1)).  A group of one has  *)
(* no sample variance and t is nan; a zero denominator gives nan for a     *)
(* zero difference and an infinity otherwise.  Else t is given by its sign *)
(* and its square                                                          *)
(*   (Sa nb - Sb na)^2 (na-1)(nb-1) / (Dev a nb^2 (nb-1) + Dev b na^2 (na-1)) *)
ttest_ind(a, b) ==
    LET na   == Len(a)
        nb   == Len(b)
        diff == SeqSum(a) * nb - SeqSum(b) * na
        den  == Dev(a) * nb * nb * (nb - 1) + Dev(b) * na * na * (na - 1)
    IN  IF na < 2 \/ nb < 2 THEN NaN
        ELSE IF den = 0
             THEN IF diff = 0 THEN NaN ELSE [kind |-> "inf", sign |-> Sign(diff)]
             ELSE [kind  |-> "finite",
                   sign  |-> Sign(diff),
                   sqnum |-> diff * diff * (na - 1) * (nb - 1),
                   sqden |-> den]

(* The p value ttest_ind returns with t: nan for a nan statistic, else the *)
(* two-sided tail of |t|, which is kept symbolic.                          *)
pvalue(t) == IF t = NaN THEN NaN ELSE [kind |-> "two_sided_tail", of |-> t]

(* The first check of perform_ttest with the threshold one too low. *)
TooFew_one(df) == Len(df) < MinTotal - 1

(* The first check of perform_ttest: len(df) < 2. *)
TooFew(df) == Len(df) < MinTotal

(* The second check with "and" in place of "or". *)
MissingGroup_both(male_data, female_data) ==
    Len(male_data) = 0 /\ Len(female_data) = 0

(* The second check of perform_ttest: one of the two groups has no data. *)
MissingGroup(male_data, female_data) ==
    Len(male_data) = 0 \/ Len(female_data) = 0

(* What perform_ttest returns when it gives up, with its warning. *)
NoResult(w) ==
    [called |-> TRUE, warning |-> w, t_stat |-> None, p_val |-> None,
     stats_dict |-> None, data_dict |-> None]

(* perform_ttest(df): the frame after the call (df is the caller's frame,  *)
(* assigned to in place) and the tuple returned.                           *)
perform_ttest(df) ==
    IF TooFew(df)
    THEN [df |-> df, ret |-> NoResult("too_few")]
    ELSE LET df2         == AssignTid(df)
             male_data   == GroupValues(df2, "Man")
             female_data == GroupValues(df2, "Kvinna")
         IN  IF MissingGroup(male_data, female_data)
             THEN [df |-> df2, ret |-> NoResult("missing_group")]
             ELSE [df  |-> df2,
                   ret |-> [called  |-> TRUE,
                            warning |-> "none",
                            t_stat  |-> ttest_ind(male_data, female_data),
                            p_val   |-> pvalue(ttest_ind(male_data, female_data)),
                            stats_dict |->
                               [Man    |-> [Medelvarde |-> mean(male_data),
                                            Standardavvikelse |-> std(male_data),
                                            Antal |-> Len(male_data)],
                                Kvinna |-> [Medelvarde |-> mean(female_data),
                                            Standardavvikelse |-> std(female_data),
                                            Antal |-> Len(female_data)]],
                            data_dict |-> [Man |-> male_data, Kvinna |-> female_data]]]

(* ---------------------------- the page --------------------------------- *)

(* The run in which perform_ttest is not called. *)
NotCalled ==
    [called |-> FALSE, warning |-> "none", t_stat |-> None, p_val |-> None,
     stats_dict |-> None, data_dict |-> None]

(* The part of the script below the buttons, on the session's frame: it    *)
(* lists the frame and calls perform_ttest when the frame is not empty,    *)
(* and shows a notice otherwise.                                           *)
ScriptBody(df) ==
    IF df # EmptyFrame
    THEN [data    |-> perform_ttest(df).df,
          listing |-> [view |-> "table", rows |-> df],
          result  |-> perform_ttest(df).ret]
    ELSE [data    |-> df,
          listing |-> [view |-> "info", rows |-> EmptyFrame],
          result  |-> NotCalled]

(* Session start: the frame is created empty, the counter is 1 and the     *)
(* script has run once.                                                    *)
Init ==
    /\ data = EmptyFrame
    /\ counter = FirstCounter
    /\ msg = "none"
    /\ listing = ScriptBody(EmptyFrame).listing
    /\ result = ScriptBody(EmptyFrame).result
    /\ cleared = -1
    /\ rejectedAt = -1

(* Button "Lagg till data" with the inputs showing g and t: add_data on    *)
(* the globals gender = g and time_sec = t, then the script.  The frame    *)
(* grows to MaxLen rows at most.                                           *)
ClickAdd(g, t) ==
    /\ Valid(g, t) => Len(data) < MaxLen
    /\ LET r == add_data(g, t, data, counter)
       IN  /\ counter' = r.counter
           /\ msg' = r.msg
           /\ data' = ScriptBody(r.data).data
           /\ listing' = ScriptBody(r.data).listing
           /\ result' = ScriptBody(r.data).result
           /\ rejectedAt' = IF r.msg = "error" THEN Len(data) ELSE rejectedAt
    /\ UNCHANGED cleared

(* Button "Aterstall all data": reset_data, then the script. *)
ClickReset ==
    /\ LET r == reset_data(data, counter)
       IN  /\ counter' = r.counter
           /\ msg' = r.msg
           /\ data' = ScriptBody(r.data).data
           /\ listing' = ScriptBody(r.data).listing
           /\ result' = ScriptBody(r.data).result
    /\ cleared' = Len(data)
    /\ rejectedAt' = -1

(* The page is run again with no button pressed (an input was changed):    *)
(* the script alone, which lists the frame and analyses it.                *)
Rerun ==
    /\ msg' = "none"
    /\ data' = ScriptBody(data).data
    /\ listing' = ScriptBody(data).listing
    /\ result' = ScriptBody(data).result
    /\ UNCHANGED <<counter, cleared, rejectedAt>>

(* perform_ttest called on the session's frame as it is, empty or not. *)
CallTtest ==
    /\ msg' = "none"
    /\ data' = perform_ttest(data).df
    /\ result' = perform_ttest(data).ret
    /\ UNCHANGED <<counter, listing, cleared, rejectedAt>>

Next ==
    \/ \E g \in Genders, t \in Times : ClickAdd(g, t)
    \/ ClickReset
    \/ Rerun
    \/ CallTtest

Spec == Init /\ [][Next]_vars

(* ---------------------------- properties ------------------------------- *)

(* The number of rows of the frame whose label is g. *)
CountOf(g) == Cardinality({i \in DOMAIN data : data[i].Kon = g})

(* C1: for each of the two recognized labels and each time from 0 to 300,  *)
(* add_data succeeds: the new row carries the counter's value before the   *)
(* call as its id and is put at the end, the rows before it are as they    *)
(* were, and the length and the counter both grow by exactly one.          *)
C1_AppendSucceeds ==
    [][\A g \in {"Man", "Kvinna"}, t \in Times :
          (0 <= t /\ t <= 300 /\ ClickAdd(g, t)) =>
              /\ msg' = "added"
              /\ data' = Append(data, [Deltagare |-> counter, Kon |-> g, Tid |-> t])
              /\ Len(data') = Len(data) + 1
              /\ counter' = counter + 1]_vars

(* A second row has just been added and carries the id the counter had. *)
C1_Witness ==
    /\ msg = "added"
    /\ Len(data) >= 2
    /\ data[Len(data)].Deltagare = counter - 1

(* C2: add_data with an empty label, a label that is not one of the two   *)
(* recognized ones, a time below 0 or a time above 300 reports an error    *)
(* and leaves the rows and the counter as they were.                       *)
C2_RejectLeavesStore ==
    [][\A g \in Genders, t \in Times :
          (ClickAdd(g, t) /\ (g = "" \/ g \notin {"Man", "Kvinna"} \/ t < 0 \/ t > 300)) =>
              /\ msg' = "error"
              /\ data' = data
              /\ counter' = counter]_vars

(* C3: reset_data can always be called and leaves no rows and the counter  *)
(* at 1, and the first row added after a reset gets id 1 however many rows *)
(* the frame held before the reset.                                        *)
C3_ClearResets ==
    /\ [](ENABLED ClickReset)
    /\ [][/\ ClickReset => (data' = << >> /\ counter' = 1)
          /\ \A g \in Genders, t \in Times :
                (cleared >= 0 /\ data = << >> /\ ClickAdd(g, t) /\ msg' = "added") =>
                    (Len(data') = 1 /\ data'[1].Deltagare = 1)]_vars

(* Three rows were added, the frame was reset, and one row was added. *)
C3_Witness ==
    /\ cleared = 3
    /\ msg = "added"
    /\ Len(data) = 1
    /\ data[1].Deltagare = 1

(* C4: every row of the frame has one of the two recognized labels and a   *)
(* time from 0 to 300, whatever add_data and reset_data were called with.  *)
C4_RowsValid ==
    \A i \in DOMAIN data :
        /\ data[i].Kon \in {"Man", "Kvinna"}
        /\ data[i].Kon # ""
        /\ 0 <= data[i].Tid /\ data[i].Tid <= 300

(* C5: the ids of the rows are positive and strictly increasing in         *)
(* insertion order (hence distinct), and the counter is one more than the  *)
(* newest id, so a rejected add_data has neither used up nor repeated one. *)
C5_IdsIncreasing ==
    /\ \A i \in DOMAIN data : data[i].Deltagare > 0
    /\ \A i, j \in DOMAIN data : i < j => data[i].Deltagare < data[j].Deltagare
    /\ data # << >> => counter = data[Len(data)].Deltagare + 1

(* An add_data was rejected when the frame held one row, and two rows were *)
(* added after it.                                                         *)
C5_Witness ==
    /\ rejectedAt = 1
    /\ Len(data) = 3
    /\ msg = "added"

(* C6: perform_ttest returns nothing (four None, with a warning) when the  *)
(* frame has fewer than 2 rows or one of the two groups has no row, and    *)
(* returns the statistic, the p value, the statistics of both groups and   *)
(* their values when there are at least 2 rows and both groups have one.   *)
C6_InsufficientData ==
    result.called =>
        LET insufficient == Len(data) < 2 \/ CountOf("Man") = 0 \/ CountOf("Kvinna") = 0
        IN  IF insufficient
            THEN /\ result.warning # "none"
                 /\ result.t_stat = None
                 /\ result.p_val = None
                 /\ result.stats_dict = None
                 /\ result.data_dict = None
            ELSE /\ result.warning = "none"
                 /\ result.t_stat # None
                 /\ result.p_val # None
                 /\ result.stats_dict # None
                 /\ result.data_dict # None
                 /\ result.stats_dict.Man.Antal = CountOf("Man")
                 /\ result.stats_dict.Kvinna.Antal = CountOf("Kvinna")

(* perform_ttest gave up on a frame of two or more rows of a single group. *)
C6_Witness ==
    /\ result.called
    /\ Len(data) >= 2
    /\ CountOf("Kvinna") = 0
    /\ CountOf("Man") = Len(data)
    /\ result.t_stat = None

(* The session has added exactly one row, a "Man" row, never reset, and    *)
(* perform_ttest has been called on it.                                    *)
OneManOnly ==
    /\ cleared = -1
    /\ Len(data) = 1
    /\ data[1].Kon = "Man"
    /\ result.called

(* C7 as stated: after exactly one row of the first group, perform_ttest   *)
(* gives up with the missing-group warning.                                *)
C7_MissingGroupFirst == OneManOnly => result.warning = "missing_group"

(* C7 as amended: after exactly one row of the first group, perform_ttest  *)
(* gives up with the too-few-rows warning; the length check comes before   *)
(* the check of the groups.                                                *)
C7_TooFewFirst ==
    OneManOnly => (result.warning = "too_few" /\ result.t_stat = None)

(* One "Man" row of 300 seconds is all there is, and it was analysed. *)
C7_Witness ==
    /\ data = <<[Deltagare |-> 1, Kon |-> "Man", Tid |-> 300]>>
    /\ rejectedAt = -1
    /\ cleared = -1
    /\ result.called

(* C8: the standard deviation reported for a group is the sample standard  *)
(* deviation, divisor n - 1: its square times n - 1 is the sum of the      *)
(* squared deviations from the group's mean.  With both sides multiplied   *)
(* by n * sqden: sqnum * n * (n - 1) = (n * Q - S^2) * sqden.              *)
C8_BesselCorrection ==
    result.stats_dict # None =>
        \A g \in {"Man", "Kvinna"} :
            LET xs == GroupValues(data, g)
                n  == Len(xs)
                sd == result.stats_dict[g].Standardavvikelse
            IN  sd.sqnum * n * (n - 1) = Dev(xs) * sd.sqden

(* C9: perform_ttest and the listing of the frame are read-only: a run of  *)
(* the script or a call of perform_ttest, failing or not, leaves the rows  *)
(* (ids, labels, times, order) and the counter as they were, and the       *)
(* listing shows the rows as they are.                                     *)
C9_ComputeReadOnly ==
    [][(Rerun \/ CallTtest) =>
          /\ data' = data
          /\ counter' = counter
          /\ (Rerun => listing'.rows = data)]_vars

(* perform_ttest has gone through a frame with both groups, whose times    *)
(* are not all zero, and returned statistics.                              *)
C9_Witness ==
    /\ msg = "none"
    /\ result.called
    /\ result.warning = "none"
    /\ \E i \in DOMAIN data : data[i].Tid = 300

(* C10: the counter is the number of rows plus 1 and the i-th row has id   *)
(* i, after any mix of added rows, rejected rows and resets.               *)
C10_CounterIsLengthPlusOne ==
    /\ counter = Len(data) + 1
    /\ \A i \in DOMAIN data : data[i].Deltagare = i

(* A populated frame was reset, a row was added, an add_data was rejected  *)
(* and another row was added.                                              *)
C10_Witness ==
    /\ cleared >= 2
    /\ rejectedAt = 1
    /\ Len(data) = 2
    /\ msg = "added"

====
